---- MODULE Spec2Model ----
(***************************************************************************)
(* Model of the Outline MCP adapter (src/index.js): the OutlineServer      *)
(* class, its call_tool handler, searchDocuments, getDocument and          *)
(* extractKeywords.  JavaScript strings are sequences of one-character     *)
(* strings; null/undefined is the value Null.                              *)
(***************************************************************************)
EXTENDS Integers, Sequences, FiniteSets, TLC

\* ------------------------------------------------------------------------
\* Bounds of the model
\* ------------------------------------------------------------------------
\* largest number of hits one upstream search response carries
MaxHits == 2
\* largest number of abandoned detail fetches still in flight when a new
\* tool call is accepted
MaxOrphans == 2

\* ------------------------------------------------------------------------
\* JavaScript values
\* ------------------------------------------------------------------------
\* null / undefined (no JavaScript string of the model equals it: every
\* element of a string is a single character)
Null == <<"null">>

Min(a, b) == IF a < b THEN a ELSE b
Max(a, b) == IF a > b THEN a ELSE b

\* v || alt for string-or-null values: the empty string and null are falsy
OrElse(v, alt) == IF v # Null /\ v # <<>> THEN v ELSE alt

UpperCase == <<"A","B","C","D","E","F","G","H","I","J","K","L","M",
               "N","O","P","Q","R","S","T","U","V","W","X","Y","Z">>
LowerCase == <<"a","b","c","d","e","f","g","h","i","j","k","l","m",
               "n","o","p","q","r","s","t","u","v","w","x","y","z">>
Digits == {"0","1","2","3","4","5","6","7","8","9"}

\* String.prototype.toLowerCase, one character
ToLowerChar(c) ==
    IF \E k \in 1..26 : UpperCase[k] = c
    THEN LowerCase[CHOOSE k \in 1..26 : UpperCase[k] = c]
    ELSE c

\* String.prototype.toLowerCase
ToLowerCase(s) == [k \in 1..Len(s) |-> ToLowerChar(s[k])]

\* the character class \s
IsSpace(c) == c \in {" ", "\t", "\n"}

\* the character class [a-zA-Z0-9]
IsAlnum(c) ==
    \/ \E k \in 1..26 : UpperCase[k] = c \/ LowerCase[k] = c
    \/ c \in Digits

\* String.prototype.split(/\s+/): the pieces between maximal runs of
\* whitespace; a leading or trailing run leaves an empty piece
RECURSIVE SplitFrom(_, _, _, _, _)
SplitFrom(s, k, cur, prevSpace, acc) ==
    IF k > Len(s) THEN Append(acc, cur)
    ELSE IF IsSpace(s[k])
         THEN IF prevSpace THEN SplitFrom(s, k + 1, cur, TRUE, acc)
              ELSE SplitFrom(s, k + 1, <<>>, TRUE, Append(acc, cur))
         ELSE SplitFrom(s, k + 1, Append(cur, s[k]), FALSE, acc)

SplitWhitespace(s) == SplitFrom(s, 1, <<>>, FALSE, <<>>)

\* String.prototype.substring(0, m): a negative m counts as 0, an m past
\* the end as the length
Substring0(s, m) == SubSeq(s, 1, Min(Max(m, 0), Len(s)))

\* String.prototype.replace(/\/$/, ''): drops one trailing slash
StripTrailingSlash(s) ==
    IF Len(s) > 0 /\ s[Len(s)] = "/" THEN SubSeq(s, 1, Len(s) - 1) ELSE s

\* ------------------------------------------------------------------------
\* extractKeywords
\* ------------------------------------------------------------------------
stopWords == {
    <<"h","o","w">>, <<"d","o">>, <<"i">>, <<"t","o">>, <<"t","h","e">>,
    <<"a">>, <<"a","n">>, <<"a","n","d">>, <<"o","r">>, <<"b","u","t">>,
    <<"i","n">>, <<"o","n">>, <<"a","t">>, <<"w","h","a","t">>,
    <<"w","h","e","r","e">>, <<"w","h","e","n">>, <<"w","h","y">>,
    <<"w","h","i","c","h">>, <<"w","h","o">>, <<"w","h","o","m">>,
    <<"w","h","o","s","e">>, <<"c","a","n">>, <<"c","o","u","l","d">>,
    <<"s","h","o","u","l","d">>, <<"w","o","u","l","d">>,
    <<"w","i","l","l">> }

\* word.match(/^[^a-zA-Z0-9]+$/): one or more characters, none alphanumeric
OnlyPunctuation(word) ==
    Len(word) > 0 /\ \A k \in 1..Len(word) : ~IsAlnum(word[k])

\* the filter with its length test off by one (word.length >= 2)
KeepWord_LengthOffByOne(word) ==
    /\ Len(word) >= 2
    /\ word \notin stopWords
    /\ ~OnlyPunctuation(word)

\* the filter predicate of extractKeywords
KeepWord(word) ==
    /\ Len(word) > 2
    /\ word \notin stopWords
    /\ ~OnlyPunctuation(word)

\* Array.prototype.filter
RECURSIVE Filter(_, _)
Filter(ws, k) ==
    IF k > Len(ws) THEN <<>>
    ELSE IF KeepWord(ws[k]) THEN <<ws[k]>> \o Filter(ws, k + 1)
         ELSE Filter(ws, k + 1)

\* extractKeywords without the toLowerCase step
extractKeywords_CaseSensitive(query) == Filter(SplitWhitespace(query), 1)

extractKeywords(query) == Filter(SplitWhitespace(ToLowerCase(query)), 1)

ExampleQuery ==
    <<"H","o","w"," ","d","o"," ","I"," ","r","e","s","e","t"," ",
      "m","y"," ","p","a","s","s","w","o","r","d","?">>


\* ------------------------------------------------------------------------
\* Errors
\* ------------------------------------------------------------------------
\* an error object: its class, its MCP error code, its message and, for an
\* axios error, error.response?.data?.message
Err(name, code, message, responseMessage) ==
    [name |-> name, code |-> code, message |-> message,
     responseMessage |-> responseMessage]

NoError == Err("none", "none", <<>>, Null)

\* new McpError(code, message)
McpError(code, message) == Err("McpError", code, message, Null)

\* the TypeError of reading a property of undefined
TypeErrorMessage ==
    <<"C","a","n","n","o","t"," ","r","e","a","d"," ","p","r","o","p","e","r","t","i","e","s">>
    \o <<" ","o","f"," ","u","n","d","e","f","i","n","e","d">>
TypeError == Err("TypeError", "none", TypeErrorMessage, Null)

\* the rejection of an axios call
AxiosError(message, responseMessage) ==
    Err("AxiosError", "none", message, responseMessage)

ErrorNameChars(e) ==
    CASE e.name = "McpError" -> <<"M","c","p","E","r","r","o","r">>
      [] e.name = "TypeError" -> <<"T","y","p","e","E","r","r","o","r">>
      [] e.name = "AxiosError" -> <<"A","x","i","o","s","E","r","r","o","r">>
      [] OTHER -> <<>>

\* `${error}`: Error.prototype.toString, name + ": " + message
ErrorToString(e) == ErrorNameChars(e) \o <<":", " ">> \o e.message

OutlineApiErrorPrefix == <<"O","u","t","l","i","n","e"," ","A","P","I"," ","e","r","r","o","r",":"," ">>
UrlPrefix == <<" ","(","U","R","L",":"," ">>
FailedPrefix == <<"F","a","i","l","e","d"," ","t","o"," ","s","e","a","r","c","h"," ","d","o","c","u","m","e","n","t","s",":"," ">>
UnknownToolPrefix == <<"U","n","k","n","o","w","n"," ","t","o","o","l",":"," ">>
ArgumentsMustBeObject == <<"A","r","g","u","m","e","n","t","s"," ","m","u","s","t"," ","b","e"," ","a","n"," ","o","b","j","e","c","t">>
QueryMustBeString == <<"Q","u","e","r","y"," ","m","u","s","t"," ","b","e"," ","a"," ","s","t","r","i","n","g">>

\* error instanceof McpError
IsMcpError(e) == e.name = "McpError"

\* axios.isAxiosError(error)
isAxiosError(e) == e.name = "AxiosError"

\* the catch block of searchDocuments rethrowing every error as it is
SearchCatch_Rethrow(error, url) == error

\* the catch block of searchDocuments: what it throws for a caught error
SearchCatch(error, url) ==
    IF isAxiosError(error)
    THEN McpError("InternalError",
                  OutlineApiErrorPrefix
                  \o OrElse(error.responseMessage, error.message)
                  \o UrlPrefix \o url \o <<")">>)
    ELSE error

\* the catch block of the handler wrapping every error
HandlerCatch_AlwaysWrap(error) ==
    McpError("InternalError", FailedPrefix \o ErrorToString(error))

\* the catch block of the call_tool handler: what it throws for a caught error
HandlerCatch(error) ==
    IF IsMcpError(error) THEN error
    ELSE McpError("InternalError", FailedPrefix \o ErrorToString(error))

\* ------------------------------------------------------------------------
\* Requests
\* ------------------------------------------------------------------------
\* a JavaScript value of an argument field
Undefined == [type |-> "undefined", str |-> <<>>, num |-> 0]
StrVal(s) == [type |-> "string", str |-> s, num |-> 0]
NumVal(n) == [type |-> "number", str |-> <<>>, num |-> n]

SearchDocumentsName == <<"s","e","a","r","c","h","_","d","o","c","u","m","e","n","t","s">>

DefaultTopK == 3
DefaultMaxChars == 4000

\* !request.params.arguments
ArgumentsFalsy(a) == a.type \in {"undefined", "null"}

\* typeof request.params.arguments
ArgumentsTypeOf(a) ==
    IF a.type \in {"null", "array", "object"} THEN "object" ELSE a.type

\* the handler without its check of args.query
ValidateRequest_NoQueryCheck(req) ==
    IF req.name # SearchDocumentsName
    THEN McpError("MethodNotFound", UnknownToolPrefix \o req.name)
    ELSE IF ArgumentsFalsy(req.arguments)
            \/ ArgumentsTypeOf(req.arguments) # "object"
    THEN McpError("InvalidParams", ArgumentsMustBeObject)
    ELSE NoError

\* the three checks of the call_tool handler: the error it throws, or NoError
ValidateRequest(req) ==
    IF req.name # SearchDocumentsName
    THEN McpError("MethodNotFound", UnknownToolPrefix \o req.name)
    ELSE IF ArgumentsFalsy(req.arguments)
            \/ ArgumentsTypeOf(req.arguments) # "object"
    THEN McpError("InvalidParams", ArgumentsMustBeObject)
    ELSE IF req.arguments.query.type # "string"
    THEN McpError("InvalidParams", QueryMustBeString)
    ELSE NoError

\* typeof args.top_k === 'number' ? args.top_k : 3
EffectiveTopK(args) ==
    IF args.top_k.type = "number" THEN args.top_k.num ELSE DefaultTopK

\* typeof args.max_chars === 'number' ? args.max_chars : 4000
EffectiveMaxChars(args) ==
    IF args.max_chars.type = "number" THEN args.max_chars.num
    ELSE DefaultMaxChars


\* ------------------------------------------------------------------------
\* Upstream data
\* ------------------------------------------------------------------------
\* one element of response.data.data of documents.search: result.document
\* (absent when hasDocument is FALSE) and result.context
Hit(hasDocument, id, title, urlId, context) ==
    [hasDocument |-> hasDocument, id |-> id, title |-> title,
     urlId |-> urlId, context |-> context]

Snippet == <<"s","n","i","p">>
FullText == <<"f","u","l","l","!">>

HitPool == {
    Hit(TRUE, <<"d","1">>, <<"T">>, <<"u","1">>, Snippet),
    Hit(TRUE, <<"d","2">>, Null, Null, Null),
    Hit(TRUE, <<"d","3">>, <<>>, <<>>, Snippet),
    Hit(TRUE, Null, <<"T">>, Null, Snippet),
    Hit(FALSE, Null, Null, Null, Snippet) }

RECURSIVE SeqsUpTo(_, _)
SeqsUpTo(S, n) ==
    IF n <= 0 THEN {<<>>}
    ELSE LET shorter == SeqsUpTo(S, n - 1)
         IN shorter \cup {Append(q, e) : q \in shorter, e \in S}

\* the outcome of one axios.post to documents.search: a rejection, a body
\* without data, data that is not an array, or an array of hits
SearchResponse(kind, responseMessage, hits) ==
    [kind |-> kind, responseMessage |-> responseMessage, hits |-> hits]

NetworkMessage == <<"E","C","O","N","N">>
UpstreamMessage == <<"4","0","1">>

\* the upstream honours the limit of the request: at most limit hits
SearchResponses(limit) ==
    {SearchResponse("reject", m, <<>>) : m \in {Null, UpstreamMessage}}
    \cup {SearchResponse("nobody", Null, <<>>),
          SearchResponse("nodata", Null, <<>>)}
    \cup {SearchResponse("array", Null, h) :
            h \in SeqsUpTo(HitPool, Min(Max(limit, 0), MaxHits))}

\* the value getDocument returns: null, or the document with its text
FullDoc(state, text) == [state |-> state, text |-> text]
Pending == FullDoc("pending", Null)
NullDoc == FullDoc("null", Null)

\* the outcome of one axios.post to documents.info
InfoResponses ==
    {[kind |-> "reject", text |-> Null], [kind |-> "nodata", text |-> Null],
     [kind |-> "doc", text |-> Null], [kind |-> "doc", text |-> FullText]}

\* getDocument: response.data.data, or null when the call failed
getDocument(resp) ==
    IF resp.kind = "doc" THEN FullDoc("doc", resp.text) ELSE NullDoc

\* ------------------------------------------------------------------------
\* searchDocuments
\* ------------------------------------------------------------------------
ApiSearchPath == <<"/","a","p","i","/","d","o","c","u","m","e","n","t","s",".","s","e","a","r","c","h">>
ApiInfoPath == <<"/","a","p","i","/","d","o","c","u","m","e","n","t","s",".","i","n","f","o">>
DocPath == <<"/","d","o","c","/">>

\* an upstream request: the endpoint, its URL and the query term (search),
\* the limit (search) or the document id (info)
Request(api, url, term, limit) ==
    [api |-> api, url |-> url, term |-> term, limit |-> limit]

\* the documents.search request of one keyword attempt
SearchRequest(url, searchTerm, k) ==
    Request("search", StripTrailingSlash(url) \o ApiSearchPath, searchTerm, k)

\* the documents.info request of getDocument(doc.id)
InfoRequest(url, id) ==
    Request("info", StripTrailingSlash(url) \o ApiInfoPath, id, 0)

\* documents kept from the call before instead of a fresh list
InitialDocuments_Kept(previous) == previous

\* let documents = []: a fresh list in every call, whatever the list of the
\* call before was
InitialDocuments(previous) == <<>>

\* the keyword loop stopping one keyword early
LoopCondition_SkipsLast(idx, kws, docs) ==
    idx + 1 < Len(kws) /\ Len(docs) = 0

\* the keyword loop going on while the list is shorter than two
LoopCondition_FillsUp(idx, kws, docs) == idx < Len(kws) /\ Len(docs) < 2

\* the keyword loop without its documents.length === 0 test
LoopCondition_NoShortCircuit(idx, kws, docs) == idx < Len(kws)

\* the condition of the keyword loop (i counts from 0)
LoopCondition(idx, kws, docs) == idx < Len(kws) /\ Len(docs) = 0

\* the text field without the fallback to the search snippet
ItemText_NoFallback(hit, fullDoc, m) ==
    IF fullDoc.state = "doc"
    THEN Substring0(OrElse(fullDoc.text, <<>>), m)
    ELSE <<>>

\* the text field of a result item
ItemText(hit, fullDoc, m) ==
    IF fullDoc.state = "doc"
    THEN Substring0(OrElse(fullDoc.text, <<>>), m)
    ELSE Substring0(OrElse(hit.context, <<>>), m)

\* the url field built from the id alone
ItemUrl_IdOnly(hit, url) == url \o DocPath \o OrElse(hit.id, <<>>)

\* the url field of a result item
ItemUrl(hit, url) ==
    url \o DocPath \o OrElse(hit.urlId, OrElse(hit.id, <<>>))

\* the object the map callback returns for one hit
BuildItem(hit, fullDoc, m, url) ==
    [id |-> OrElse(hit.id, <<>>),
     title |-> OrElse(hit.title, <<>>),
     text |-> ItemText(hit, fullDoc, m),
     url |-> ItemUrl(hit, url)]

\* the hits of a response whose callback gets as far as getDocument
WellFormed(hs) == {j \in 1..Len(hs) : hs[j].hasDocument}

\* the detail fetches with no request for a hit without id
RECURSIVE InfoRequests_SkipsMissingId(_, _, _)
InfoRequests_SkipsMissingId(url, hs, j) ==
    IF j > Len(hs) THEN <<>>
    ELSE IF hs[j].hasDocument /\ hs[j].id # Null
         THEN <<InfoRequest(url, hs[j].id)>>
              \o InfoRequests_SkipsMissingId(url, hs, j + 1)
         ELSE InfoRequests_SkipsMissingId(url, hs, j + 1)

RECURSIVE InfoRequests(_, _, _)
InfoRequests(url, hs, j) ==
    IF j > Len(hs) THEN <<>>
    ELSE IF hs[j].hasDocument
         THEN <<InfoRequest(url, hs[j].id)>> \o InfoRequests(url, hs, j + 1)
         ELSE InfoRequests(url, hs, j + 1)

\* the response of the call_tool handler
Outcome(kind, docs, error, caught) ==
    [kind |-> kind, documents |-> docs, error |-> error, caught |-> caught]

NoOutcome == Outcome("none", <<>>, NoError, NoError)


\* ------------------------------------------------------------------------
\* Inputs
\* ------------------------------------------------------------------------
\* process.env: OUTLINE_API_KEY and OUTLINE_INSTANCE_URL (empty when unset)
ApiKeys == {<<>>, <<"k","e","y">>}
InstanceUrls == {<<>>, <<"h",":","/","/","w">>, <<"h",":","/","/","w","/">>}

\* queries with no keyword
FilteredQueries == {
    <<>>, <<" ">>, <<"H","o","w"," ","d","o"," ","I">>, <<"?","?"," ","m","y"," ","!">>, <<"T","H","E">>, <<"t","o","\t","a","n","\n","-","-">>, <<" "," ","w","h","o"," ">>, <<"a","1"," ",".",".","."," ","w","i","l","l">> }

\* queries with keywords
KeywordQueries == { ExampleQuery, <<" ","R","e","s","e","t"," ">>, <<"v","p","n"," "," ","v","p","n">> }

Queries == FilteredQueries \cup KeywordQueries

\* the (top_k, max_chars) pairs of the calls
ArgPairs == {
    <<Undefined, Undefined>>,
    <<NumVal(1), NumVal(2)>>,
    <<NumVal(2), NumVal(-1)>>,
    <<NumVal(2), NumVal(4)>>,
    <<NumVal(-1), NumVal(2)>>,
    <<NumVal(0), NumVal(0)>> }

\* the pairs of the calls whose query has no keyword
FilteredArgPairs == {
    <<Undefined, Undefined>>,
    <<StrVal(<<"2">>), StrVal(<<"2">>)>>,
    <<NumVal(-1), NumVal(2)>> }

\* request.params.arguments
Arguments(type, query, top_k, max_chars) ==
    [type |-> type, query |-> query, top_k |-> top_k,
     max_chars |-> max_chars]

\* arguments the handler rejects
BadArguments ==
    {Arguments(t, Undefined, Undefined, Undefined) :
        t \in {"undefined", "null", "string", "number", "array", "object"}}
    \cup {Arguments("object", NumVal(7), Undefined, Undefined)}

\* arguments the handler accepts
GoodArguments ==
    {Arguments("object", StrVal(ExampleQuery), a[1], a[2]) :
        a \in ArgPairs \ {<<Undefined, Undefined>>}}
    \cup {Arguments("object", StrVal(<<" ","R","e","s","e","t"," ">>),
                     a[1], a[2]) :
            a \in {<<Undefined, Undefined>>, <<NumVal(1), NumVal(2)>>,
                   <<NumVal(2), NumVal(-1)>>}}
    \cup {Arguments("object", StrVal(<<"v","p","n"," "," ","v","p","n">>),
                     NumVal(1), NumVal(2))}
    \cup {Arguments("object", StrVal(q), a[1], a[2]) :
            q \in FilteredQueries, a \in FilteredArgPairs}

ArgumentsSet == BadArguments \cup GoodArguments

UnknownNames == {<<"f","o","o">>, <<>>}

ToolNames == {SearchDocumentsName} \cup UnknownNames

\* request.params of a call_tool request
ToolRequest(name, arguments) == [name |-> name, arguments |-> arguments]

ToolRequests ==
    {ToolRequest(SearchDocumentsName, a) : a \in ArgumentsSet}
    \cup {ToolRequest(n, a) :
            n \in UnknownNames,
            a \in BadArguments \cup
                  {Arguments("object", StrVal(ExampleQuery), Undefined,
                             Undefined)}}

NoRequest == ToolRequest(<<>>, Arguments("undefined", Undefined, Undefined, Undefined))

\* the process has not exited
Running == -1

\* the handlers the constructor registers: setupToolHandlers and
\* process.on('SIGINT')
AllHandlers == {"tools/list", "tools/call", "SIGINT"}

\* ------------------------------------------------------------------------
\* State
\* ------------------------------------------------------------------------
VARIABLES
    env,        \* process.env: [apiKey, instanceUrl]
    phase,      \* "start", "failed", "constructed", "serving"
    handlers,   \* the handlers registered so far
    server,     \* this.server: "open", "closing", "closed"
    exitCode,   \* the status the process exited with, Running before that
    apiKey,     \* this.apiKey
    instanceUrl,\* this.instanceUrl
    pc,         \* the call_tool handler: "idle", "search", "fetch", "done"
    request,    \* request.params of the call being handled
    keywords,   \* searchDocuments: keywords
    i,          \* searchDocuments: the loop counter
    topK,       \* searchDocuments: topK
    maxChars,   \* searchDocuments: maxChars
    documents,  \* searchDocuments: documents
    hits,       \* response.data.data of the latest search response
    fullDocs,   \* per hit, the value of await this.getDocument(doc.id)
    requests,   \* the upstream requests this call has issued, in order
    responses,  \* the search responses this call has received, in order
    outcome,    \* what the handler returned or threw
    orphaned    \* detail fetches in flight whose call has already ended

vars == <<env, phase, handlers, server, exitCode, apiKey, instanceUrl, pc, request, keywords, i, topK,
          maxChars, documents, hits, fullDocs, requests, responses, outcome,
          orphaned>>

config == <<env, phase, handlers, server, exitCode, apiKey, instanceUrl>>

Init ==
    /\ env \in [apiKey : ApiKeys, instanceUrl : InstanceUrls]
    /\ phase = "start"
    /\ handlers = {}
    /\ server = "open"
    /\ exitCode = Running
    /\ apiKey = <<>>
    /\ instanceUrl = <<>>
    /\ pc = "idle"
    /\ request = NoRequest
    /\ keywords = <<>>
    /\ i = 0
    /\ topK = DefaultTopK
    /\ maxChars = DefaultMaxChars
    /\ documents = <<>>
    /\ hits = <<>>
    /\ fullDocs = <<>>
    /\ requests = <<>>
    /\ responses = <<>>
    /\ outcome = NoOutcome
    /\ orphaned = 0

\* the test on the two settings without the instance URL
ConfigMissing_KeyOnly(key, url) == key = <<>>

\* !this.apiKey || !this.instanceUrl
ConfigMissing(key, url) == key = <<>> \/ url = <<>>

\* new OutlineServer(): throws unless both settings are non-empty,
\* otherwise registers the handlers; the uncaught throw ends the module
\* body before server.run() and the process with status 1
Construct ==
    /\ phase = "start"
    /\ exitCode = Running
    /\ apiKey' = env.apiKey
    /\ instanceUrl' = env.instanceUrl
    /\ IF ConfigMissing(env.apiKey, env.instanceUrl)
       THEN phase' = "failed" /\ handlers' = {} /\ exitCode' = 1
       ELSE /\ phase' = "constructed"
            /\ handlers' = AllHandlers
            /\ UNCHANGED exitCode
    /\ UNCHANGED <<env, server, pc, request, keywords, i, topK,
                   maxChars, documents, hits, fullDocs, requests, responses,
                   outcome, orphaned>>

\* server.run(): connects the transport
Run ==
    /\ phase = "constructed"
    /\ exitCode = Running
    /\ phase' = "serving"
    /\ UNCHANGED <<env, handlers, server, exitCode, apiKey, instanceUrl, pc,
                   request, keywords, i, topK, maxChars, documents, hits,
                   fullDocs, requests, responses, outcome, orphaned>>

\* the SIGINT handler up to its await: this.server.close() is called
Sigint ==
    /\ phase = "serving"
    /\ "SIGINT" \in handlers
    /\ exitCode = Running
    /\ server = "open"
    /\ server' = "closing"
    /\ UNCHANGED <<env, phase, handlers, exitCode, apiKey, instanceUrl, pc,
                   request, keywords, i, topK, maxChars, documents, hits,
                   fullDocs, requests, responses, outcome, orphaned>>

\* the server finishes closing: the promise of this.server.close() resolves
ServerCloses ==
    /\ server = "closing"
    /\ exitCode = Running
    /\ server' = "closed"
    /\ UNCHANGED <<env, phase, handlers, exitCode, apiKey, instanceUrl, pc,
                   request, keywords, i, topK, maxChars, documents, hits,
                   fullDocs, requests, responses, outcome, orphaned>>

\* the SIGINT handler going on without waiting for close() to resolve
CloseAwaited_NoAwait(state) == state \in {"closing", "closed"}

\* await this.server.close(): the handler goes on once close() has resolved
CloseAwaited(state) == state = "closed"

\* the SIGINT handler after its await: process.exit(0)
SigintResumes ==
    /\ server # "open"
    /\ CloseAwaited(server)
    /\ exitCode = Running
    /\ exitCode' = 0
    /\ UNCHANGED <<env, phase, handlers, server, apiKey, instanceUrl, pc,
                   request, keywords, i, topK, maxChars, documents, hits,
                   fullDocs, requests, responses, outcome, orphaned>>

\* the head of the keyword loop with counter idx and accumulated docs:
\* either the next search is issued or searchDocuments returns docs and the
\* handler returns them
Iterate(idx, docs, kws, k, reqs) ==
    /\ i' = idx
    /\ documents' = docs
    /\ IF LoopCondition(idx, kws, docs)
       THEN /\ pc' = "search"
            /\ requests' =
                 Append(reqs, SearchRequest(instanceUrl, kws[idx + 1], k))
            /\ outcome' = NoOutcome
       ELSE /\ pc' = "done"
            /\ requests' = reqs
            /\ outcome' = Outcome("success", docs, NoError, NoError)

\* an error thrown inside the try block of searchDocuments: through its
\* catch block and the catch block of the handler
Throw(error, reqs) ==
    LET thrown == SearchCatch(error, instanceUrl)
    IN /\ pc' = "done"
       /\ requests' = reqs
       /\ outcome' = Outcome("error", <<>>, HandlerCatch(thrown), thrown)
       /\ UNCHANGED <<i, documents>>

\* the call_tool handler up to its first await
CallTool(req) ==
    /\ phase = "serving"
    /\ "tools/call" \in handlers
    /\ server = "open"
    /\ exitCode = Running
    /\ pc \in {"idle", "done"}
    /\ orphaned < MaxOrphans
    /\ request' = req
    /\ hits' = <<>>
    /\ fullDocs' = <<>>
    /\ responses' = <<>>
    /\ LET rejected == ValidateRequest(req)
       IN IF rejected # NoError
          THEN /\ pc' = "done"
               /\ outcome' = Outcome("error", <<>>, rejected, NoError)
               /\ keywords' = <<>>
               /\ i' = 0
               /\ topK' = DefaultTopK
               /\ maxChars' = DefaultMaxChars
               /\ documents' = <<>>
               /\ requests' = <<>>
          ELSE /\ keywords' = extractKeywords(req.arguments.query.str)
               /\ topK' = EffectiveTopK(req.arguments)
               /\ maxChars' = EffectiveMaxChars(req.arguments)
               /\ Iterate(0, InitialDocuments(documents), keywords', topK',
                          <<>>)
    /\ UNCHANGED <<config, orphaned>>

\* the documents.search call of the current attempt settles
SearchSettles(resp) ==
    /\ pc = "search"
    /\ exitCode = Running
    /\ resp \in SearchResponses(requests[Len(requests)].limit)
    /\ responses' = Append(responses, resp)
    /\ CASE resp.kind = "reject" ->
              /\ Throw(AxiosError(NetworkMessage, resp.responseMessage),
                       requests)
              /\ UNCHANGED <<hits, fullDocs, orphaned>>
         [] resp.kind = "nobody" ->
              /\ Throw(TypeError, requests)
              /\ UNCHANGED <<hits, fullDocs, orphaned>>
         [] resp.kind = "nodata" ->
              /\ Iterate(i + 1, documents, keywords, topK, requests)
              /\ UNCHANGED <<hits, fullDocs, orphaned>>
         [] resp.kind = "array" ->
              LET issued == requests \o InfoRequests(instanceUrl, resp.hits, 1)
                  started == WellFormed(resp.hits)
              IN /\ hits' = resp.hits
                 /\ IF Cardinality(started) < Len(resp.hits)
                    THEN /\ Throw(TypeError, issued)
                         /\ orphaned' = orphaned + Cardinality(started)
                         /\ UNCHANGED fullDocs
                    ELSE IF Len(resp.hits) = 0
                    THEN /\ Iterate(i + 1, documents, keywords, topK, issued)
                         /\ UNCHANGED <<fullDocs, orphaned>>
                    ELSE /\ pc' = "fetch"
                         /\ requests' = issued
                         /\ fullDocs' = [j \in 1..Len(resp.hits) |-> Pending]
                         /\ UNCHANGED <<i, documents, outcome, orphaned>>
    /\ UNCHANGED <<config, request, keywords, topK, maxChars>>

\* one documents.info call of the current attempt settles; when it is the
\* last one, Promise.all resolves and the loop goes on
InfoSettles(j, resp) ==
    /\ pc = "fetch"
    /\ exitCode = Running
    /\ j \in 1..Len(fullDocs)
    /\ fullDocs[j] = Pending
    /\ resp \in InfoResponses
    /\ fullDocs' = [fullDocs EXCEPT ![j] = getDocument(resp)]
    /\ IF \E n \in 1..Len(fullDocs) : fullDocs'[n] = Pending
       THEN UNCHANGED <<pc, i, documents, requests, outcome>>
       ELSE LET results == [n \in 1..Len(hits) |->
                              BuildItem(hits[n], fullDocs'[n], maxChars,
                                        instanceUrl)]
            IN Iterate(i + 1, documents \o results, keywords, topK, requests)
    /\ UNCHANGED <<config, request, keywords, topK, maxChars, hits, responses,
                   orphaned>>

\* a documents.info call settles after its call has thrown: getDocument
\* returns into a rejected Promise.all and nothing reads the value
OrphanSettles ==
    /\ orphaned > 0
    /\ exitCode = Running
    /\ orphaned' = orphaned - 1
    /\ UNCHANGED <<config, pc, request, keywords, i, topK, maxChars,
                   documents, hits, fullDocs, requests, responses, outcome>>

Next ==
    \/ Construct
    \/ Run
    \/ \E req \in ToolRequests : CallTool(req)
    \/ \E resp \in SearchResponses(MaxHits) : SearchSettles(resp)
    \/ \E j \in 1..MaxHits, resp \in InfoResponses : InfoSettles(j, resp)
    \/ OrphanSettles
    \/ Sigint
    \/ ServerCloses
    \/ SigintResumes

Spec == Init /\ [][Next]_vars

\* the event loop runs what is ready: a close() under way finishes and the
\* SIGINT handler waiting for it goes on
FairSpec == Spec /\ WF_vars(ServerCloses) /\ WF_vars(SigintResumes)

\* ------------------------------------------------------------------------
\* Properties
\* ------------------------------------------------------------------------
\* the documents.search requests of the current call, in issue order
Searches == SelectSeq(requests, LAMBDA r : r.api = "search")

\* the documents.info requests of the current call, in issue order
Infos == SelectSeq(requests, LAMBDA r : r.api = "info")

\* sub occurs in s as a contiguous run
IsInfix(sub, s) ==
    \E k \in 0..(Len(s) - Len(sub)) : SubSeq(s, k + 1, k + Len(sub)) = sub

\* the handler accepted the request of the current call
Validated ==
    /\ pc # "idle"
    /\ request.name = SearchDocumentsName
    /\ request.arguments.type = "object"
    /\ request.arguments.query.type = "string"

\* the current call ended with a result list
Succeeded == pc = "done" /\ outcome.kind = "success"

\* C1: the keywords are searched in extraction order, one search call per
\* keyword; a search response with hits is never followed by another search
\* call; and a returned list is exactly the items built from the hits of
\* the last response received, one item per hit.
C1_FirstNonEmptyAttemptWins ==
    /\ Len(Searches) <= Len(keywords)
    /\ \A n \in 1..Len(Searches) : Searches[n].term = keywords[n]
    /\ \A n \in 1..Len(responses) :
          n < Len(Searches) => Len(responses[n].hits) = 0
    /\ Succeeded =>
          /\ Len(outcome.documents) =
                (IF responses = <<>> THEN 0
                 ELSE Len(responses[Len(responses)].hits))
          /\ \A n \in 1..Len(outcome.documents) :
                LET hit == responses[Len(responses)].hits[n]
                IN outcome.documents[n].id = OrElse(hit.id, <<>>)

\* C1 witness: the first attempt had no hits, the second had N > 0 hits and
\* the call returned exactly N items
C1_Witness ==
    /\ Succeeded
    /\ Len(responses) = 2
    /\ responses[1].kind = "array"
    /\ Len(responses[1].hits) = 0
    /\ Len(responses[2].hits) = 2
    /\ Len(outcome.documents) = 2

\* C2: a hit whose detail fetch failed appears in the result with the
\* search snippet cut to maxChars as its text, a hit whose fetch returned a
\* document has that document's text cut to maxChars, and once the detail
\* fetches of a response are under way the call can only end in success
\* with one item per hit.
C2_FailedFetchFallsBackToSnippet ==
    /\ (pc = "done" /\ fullDocs # <<>>) =>
          /\ outcome.kind = "success"
          /\ Len(outcome.documents) = Len(hits)
          /\ \A n \in 1..Len(hits) :
                LET item == outcome.documents[n]
                    snippet == IF hits[n].context = Null THEN <<>>
                               ELSE hits[n].context
                    full == IF fullDocs[n].text = Null THEN <<>>
                            ELSE fullDocs[n].text
                    cut == IF maxChars < 0 THEN 0 ELSE maxChars
                IN /\ fullDocs[n].state = "null" =>
                        /\ Len(item.text) = Min(cut, Len(snippet))
                        /\ \A c \in 1..Len(item.text) :
                              item.text[c] = snippet[c]
                   /\ fullDocs[n].state = "doc" =>
                        /\ Len(item.text) = Min(cut, Len(full))
                        /\ \A c \in 1..Len(item.text) : item.text[c] = full[c]
    /\ pc = "fetch" => outcome.kind = "none"

\* C2 witness: of two hits the fetch of one failed and the fetch of the
\* other returned the full text; the failed one carries its snippet
C2_Witness ==
    /\ Succeeded
    /\ Len(hits) = 2
    /\ \E n, m \in 1..2 :
          /\ fullDocs[n].state = "null"
          /\ hits[n].context = Snippet
          /\ outcome.documents[n].text = Snippet
          /\ fullDocs[m].state = "doc"
          /\ outcome.documents[m].text = FullText

\* C3: every item of a returned list has a text no longer than the maxChars
\* the call ran with.
C3_TextWithinMaxChars ==
    Succeeded =>
        \A n \in 1..Len(outcome.documents) :
            Len(outcome.documents[n].text) <= maxChars

\* a ?? alt: only null/undefined gives way to alt
Nullish(v, alt) == IF v # Null THEN v ELSE alt

\* C4 as stated: the url of every returned item is
\* instanceUrl + "/doc/" + (urlId ?? id ?? "").
C4_UrlNullish ==
    Succeeded =>
        \A n \in 1..Len(outcome.documents) :
            outcome.documents[n].url =
                instanceUrl \o <<"/","d","o","c","/">>
                \o Nullish(hits[n].urlId, Nullish(hits[n].id, <<>>))

\* C4: the url of every returned item is instanceUrl + "/doc/" followed by
\* the hit's urlId when that is a non-empty string, otherwise by its id
\* when that is a non-empty string, otherwise by nothing.
C4_UrlFirstNonEmpty ==
    Succeeded =>
        \A n \in 1..Len(outcome.documents) :
            LET urlId == hits[n].urlId
                id == hits[n].id
                tail == IF urlId # Null /\ Len(urlId) > 0 THEN urlId
                        ELSE IF id # Null /\ Len(id) > 0 THEN id
                        ELSE <<>>
            IN outcome.documents[n].url =
                  instanceUrl \o <<"/","d","o","c","/">> \o tail

\* C4 witness: a returned item whose hit has an empty urlId and an id; its
\* url ends in the id
C4_Witness ==
    /\ Succeeded
    /\ \E n \in 1..Len(outcome.documents) :
          /\ hits[n].urlId = <<>>
          /\ hits[n].id = <<"d","3">>
          /\ outcome.documents[n].url =
                instanceUrl \o <<"/","d","o","c","/","d","3">>

PasswordKeyword == <<"p","a","s","s","w","o","r","d">>
ResetKeyword == <<"r","e","s","e","t">>

\* the current call is a validated call with the example query
ExampleCall == Validated /\ request.arguments.query.str = ExampleQuery

\* C5 as stated: for "How do I reset my password?" the keywords are
\* ["reset", "password"]; the first search is for "reset" and the second
\* for "password".
C5_ExampleKeywordsStripped ==
    ExampleCall =>
        /\ keywords = <<ResetKeyword, PasswordKeyword>>
        /\ Len(Searches) >= 1 => Searches[1].term = ResetKeyword
        /\ Len(Searches) >= 2 => Searches[2].term = PasswordKeyword

\* C5: for "How do I reset my password?" the keywords are
\* ["reset", "password?"]; the first search is for "reset" and, when that
\* has no hits, the second is for "password?".
C5_ExampleKeywords ==
    ExampleCall =>
        /\ keywords = <<ResetKeyword, Append(PasswordKeyword, "?")>>
        /\ Len(Searches) >= 1
        /\ Searches[1].term = ResetKeyword
        /\ Len(Searches) <= 2
        /\ Len(Searches) = 2 =>
              /\ Len(responses[1].hits) = 0
              /\ Searches[2].term = Append(PasswordKeyword, "?")
        /\ (Len(responses) >= 1 /\ responses[1].kind \in {"nodata", "array"}
            /\ Len(responses[1].hits) = 0) => Len(Searches) = 2

\* C5 witness: the example call has issued its second search
C5_Witness ==
    /\ ExampleCall
    /\ Len(Searches) = 2
    /\ Len(responses) = 1

\* a whitespace-separated token that is a stopword (in any case), has at
\* most two characters, or has no alphanumeric character
FilteredToken(tok) ==
    \/ Len(tok) <= 2
    \/ ToLowerCase(tok) \in stopWords
    \/ \A k \in 1..Len(tok) : ~IsAlnum(tok[k])

\* every token of the query is a filtered one
OnlyFilteredTokens(query) ==
    LET toks == SplitWhitespace(query)
    IN \A k \in 1..Len(toks) : FilteredToken(toks[k])

\* C6: a validated call whose query has only stopwords, tokens of at most
\* two characters and tokens without alphanumeric characters extracts no
\* keyword, issues no upstream request and returns the empty list as a
\* success.
C6_NoKeywordsNoUpstreamCall ==
    (Validated /\ OnlyFilteredTokens(request.arguments.query.str)) =>
        /\ keywords = <<>>
        /\ requests = <<>>
        /\ responses = <<>>
        /\ pc = "done"
        /\ outcome = Outcome("success", <<>>, NoError, NoError)

\* C6 witness: a call with the query "How do I" has returned the empty list
C6_Witness ==
    /\ Validated
    /\ request.arguments.query.str = <<"H","o","w"," ","d","o"," ","I">>
    /\ OnlyFilteredTokens(request.arguments.query.str)
    /\ Succeeded
    /\ outcome.documents = <<>>
    /\ requests = <<>>

\* the latest search response of the current call is a failure
SearchFailed ==
    responses # <<>> /\ responses[Len(responses)].kind = "reject"

\* C7: when a documents.search call fails the call is over: it has issued
\* only search requests, one per response received and none after the
\* failure, no detail fetch is in flight, no list is returned, and the
\* caller gets an internal error whose message contains the upstream
\* message (the network message when the response carries none) and the
\* configured instance URL.
C7_SearchFailureAborts ==
    SearchFailed =>
        LET failure == responses[Len(responses)]
            upstream == IF failure.responseMessage = Null THEN NetworkMessage
                        ELSE failure.responseMessage
        IN /\ pc = "done"
           /\ Len(requests) = Len(responses)
           /\ \A n \in 1..Len(requests) : requests[n].api = "search"
           /\ \A n \in 1..Len(fullDocs) : fullDocs[n] # Pending
           /\ outcome.kind = "error"
           /\ outcome.documents = <<>>
           /\ outcome.error.name = "McpError"
           /\ outcome.error.code = "InternalError"
           /\ IsInfix(upstream, outcome.error.message)
           /\ IsInfix(env.instanceUrl, outcome.error.message)

\* C7 witness: the second keyword attempt failed with an upstream message
C7_Witness ==
    /\ SearchFailed
    /\ Len(responses) = 2
    /\ responses[2].responseMessage = UpstreamMessage
    /\ outcome.kind = "error"

\* C8: a request naming another tool ends at once in a method-not-found
\* error whose message ends in the name; a search_documents request whose
\* arguments are missing or no object, or whose query is no string, ends at
\* once in an invalid-params error; neither issues an upstream request nor
\* extracts keywords.
C8_InvalidRequestsRejected ==
    /\ (pc # "idle" /\ request.name # SearchDocumentsName) =>
          /\ pc = "done"
          /\ outcome.kind = "error"
          /\ outcome.error.name = "McpError"
          /\ outcome.error.code = "MethodNotFound"
          /\ outcome.error.message = UnknownToolPrefix \o request.name
          /\ requests = <<>>
    /\ (/\ pc # "idle"
        /\ request.name = SearchDocumentsName
        /\ \/ request.arguments.type \notin {"object", "array"}
           \/ request.arguments.query.type # "string") =>
          /\ pc = "done"
          /\ outcome.kind = "error"
          /\ outcome.error.name = "McpError"
          /\ outcome.error.code = "InvalidParams"
          /\ requests = <<>>

\* C8 witness: search_documents called with arguments {} was rejected
C8_Witness ==
    /\ pc = "done"
    /\ request.name = SearchDocumentsName
    /\ request.arguments.type = "object"
    /\ request.arguments.query.type = "undefined"
    /\ outcome.error.code = "InvalidParams"

\* C9: a returned list is no longer than the topK the call ran with.
C9_LengthWithinTopK == Succeeded => Len(outcome.documents) <= topK

\* C10: a validated call that has ended ended in a result list or in an
\* MCP error, never both; an MCP error thrown by searchDocuments reaches
\* the caller as it is, any other error as an internal error whose message
\* contains the error's string form; and a search failure, a response
\* without body or a malformed hit always ends the call in an error.
C10_FailuresAreTypedMcpErrors ==
    /\ (Validated /\ pc = "done") =>
          /\ outcome.kind \in {"success", "error"}
          /\ outcome.kind = "success" => outcome.error = NoError
          /\ outcome.kind = "error" =>
                /\ outcome.documents = <<>>
                /\ outcome.error.name = "McpError"
                /\ outcome.caught # NoError
                /\ outcome.caught.name = "McpError" =>
                      outcome.error = outcome.caught
                /\ outcome.caught.name # "McpError" =>
                      /\ outcome.error.code = "InternalError"
                      /\ IsInfix(ErrorToString(outcome.caught),
                                 outcome.error.message)
    /\ (/\ Validated
        /\ responses # <<>>
        /\ LET last == responses[Len(responses)]
           IN \/ last.kind \in {"reject", "nobody"}
              \/ \E n \in 1..Len(last.hits) : ~last.hits[n].hasDocument) =>
          (pc = "done" /\ outcome.kind = "error")

\* C10 witness: a hit without document made result construction throw a
\* TypeError while detail fetches of the same response were in flight, and
\* the call ended in an error
C10_Witness ==
    /\ Validated
    /\ pc = "done"
    /\ outcome.kind = "error"
    /\ outcome.caught.name = "TypeError"
    /\ \E n \in 1..Len(hits) : ~hits[n].hasDocument
    /\ orphaned > 0

\* pre is the beginning of s
IsPrefix(pre, s) == Len(pre) <= Len(s) /\ SubSeq(s, 1, Len(pre)) = pre

\* the configured instance URL without its trailing slash
ConfiguredBase ==
    IF Len(env.instanceUrl) > 0 /\ env.instanceUrl[Len(env.instanceUrl)] = "/"
    THEN SubSeq(env.instanceUrl, 1, Len(env.instanceUrl) - 1)
    ELSE env.instanceUrl

\* C11: the URL of every upstream request and the url field of every
\* returned item begin with the configured instance URL without its
\* trailing slash, followed by the path; none contains "//api/" or
\* "//doc/".
C11_UrlsUseStrippedBase ==
    /\ \A n \in 1..Len(requests) :
          /\ requests[n].api = "search" =>
                requests[n].url = ConfiguredBase \o ApiSearchPath
          /\ requests[n].api = "info" =>
                requests[n].url = ConfiguredBase \o ApiInfoPath
          /\ ~IsInfix(<<"/","/","a","p","i","/">>, requests[n].url)
    /\ Succeeded =>
          \A n \in 1..Len(outcome.documents) :
              /\ IsPrefix(ConfiguredBase \o <<"/","d","o","c","/">>,
                          outcome.documents[n].url)
              /\ ~IsInfix(<<"/","/","d","o","c","/">>,
                          outcome.documents[n].url)

\* C17: once SIGINT has been handled while serving, the server gets
\* closed and the process then exits with status 0; the process never
\* exits while the server is open or still closing, and never with
\* another status.
C17_SigintClosesThenExits ==
    /\ [](server = "closing" => <>(server = "closed"))
    /\ [](server = "closed" => <>(exitCode = 0))
    /\ [](phase = "serving" /\ exitCode # Running =>
            exitCode = 0 /\ server = "closed")
    /\ [][phase = "serving" /\ exitCode' # exitCode =>
            server = "closed" /\ server' = "closed"]_vars

\* C17 witness: the process has exited with status 0 after a SIGINT that
\* arrived while a tool call was waiting for its search response
C17_Witness ==
    /\ exitCode = 0
    /\ server = "closed"
    /\ phase = "serving"
    /\ pc = "search"

\* C12: when OUTLINE_API_KEY or OUTLINE_INSTANCE_URL is empty no handler
\* is ever registered, the transport is never connected, the server is
\* never touched and no tool call is ever handled.
C12_MissingConfigNeverServes ==
    (env.apiKey = <<>> \/ env.instanceUrl = <<>>) =>
        /\ phase \in {"start", "failed"}
        /\ handlers = {}
        /\ server = "open"
        /\ pc = "idle"
        /\ request = NoRequest
        /\ requests = <<>>
        /\ outcome = NoOutcome

\* C12 witness: construction failed with a key but no instance URL
C12_Witness ==
    /\ phase = "failed"
    /\ env.apiKey # <<>>
    /\ env.instanceUrl = <<>>
    /\ handlers = {}

\* C13: at most one search call is in flight, and one is in flight exactly
\* while the call waits for a search response; every search but the last
\* was answered with zero hits before the next was issued; detail fetches
\* exist only for the hits of the last response received, and in the log
\* of requests they all come after the last search.
C13_KeywordLoopSequential ==
    /\ Len(Searches) - Len(responses) = (IF pc = "search" THEN 1 ELSE 0)
    /\ \A n \in 1..Len(responses) :
          n < Len(Searches) => Len(responses[n].hits) = 0
    /\ Infos # <<>> =>
          /\ responses # <<>>
          /\ Len(Searches) = Len(responses)
          /\ Len(Infos) <= Len(responses[Len(responses)].hits)
          /\ \A n \in 1..Len(requests) :
                requests[n].api = "search" <=> n <= Len(Searches)
    /\ pc = "search" => Infos = <<>>

\* C13 witness: the second search is in flight after the first was
\* answered with zero hits
C13_Witness ==
    /\ pc = "search"
    /\ Len(Searches) = 2
    /\ Len(responses) = 1
    /\ responses[1].kind = "array"

\* a search response with zero hits: an empty array, or data that is
\* absent or no array
ZeroHits(resp) == resp.kind \in {"nodata", "array"} /\ Len(resp.hits) = 0

VpnQuery == <<"v","p","n"," "," ","v","p","n">>

\* C14: a validated call all of whose search responses had zero hits has,
\* when it ends, issued one search per keyword in extraction order
\* (duplicates included) and no detail fetch, and returned the empty list
\* as a success; for the query "vpn  vpn" these are two searches for "vpn".
C14_AllEmptyOneSearchPerKeyword ==
    (/\ Validated
     /\ pc = "done"
     /\ \A n \in 1..Len(responses) : ZeroHits(responses[n])) =>
        /\ Len(requests) = Len(keywords)
        /\ Len(responses) = Len(keywords)
        /\ \A n \in 1..Len(requests) :
              requests[n].api = "search" /\ requests[n].term = keywords[n]
        /\ outcome = Outcome("success", <<>>, NoError, NoError)
        /\ request.arguments.query.str = VpnQuery =>
              /\ Len(requests) = 2
              /\ \A n \in 1..2 : requests[n].term = <<"v","p","n">>

\* C14 witness: the query "vpn  vpn" was searched twice, once answered
\* without data and once with an empty array, and returned the empty list
C14_Witness ==
    /\ Validated
    /\ pc = "done"
    /\ request.arguments.query.str = VpnQuery
    /\ Len(responses) = 2
    /\ responses[1].kind = "nodata"
    /\ responses[2].kind = "array"
    /\ ZeroHits(responses[2])
    /\ outcome.kind = "success"

\* C15: a returned list has one item per hit of the last search response,
\* in the order of the hits, each with the hit's id and title or the empty
\* string where the hit has none; and from the moment the detail fetches
\* are issued the log holds exactly one documents.info request per hit, in
\* the order of the hits.
C15_OneItemPerHitInOrder ==
    /\ Succeeded =>
          /\ Len(outcome.documents) = Len(hits)
          /\ \A n \in 1..Len(hits) :
                /\ outcome.documents[n].id =
                      (IF hits[n].id = Null THEN <<>> ELSE hits[n].id)
                /\ outcome.documents[n].title =
                      (IF hits[n].title = Null THEN <<>> ELSE hits[n].title)
    /\ (pc = "fetch" \/ Succeeded) =>
          /\ Len(Infos) = Len(hits)
          /\ \A n \in 1..Len(hits) : Infos[n].term = hits[n].id

\* C15 witness: two hits with different ids, the first without a title and
\* the second without an id, came back as two items in that order
C15_Witness ==
    /\ Succeeded
    /\ Len(hits) = 2
    /\ hits[1].id = <<"d","2">>
    /\ hits[1].title = Null
    /\ hits[2].id = Null
    /\ outcome.documents[1].id = <<"d","2">>
    /\ outcome.documents[1].title = <<>>
    /\ outcome.documents[2].id = <<>>

\* what a validated call that has ended must have returned or thrown,
\* computed from its arguments, the configuration and the upstream
\* responses to its own requests alone
ExpectedOutcome ==
    LET args == request.arguments
        m == IF args.max_chars.type = "number" THEN args.max_chars.num
             ELSE 4000
        typeError == McpError("InternalError",
                              FailedPrefix \o ErrorToString(TypeError))
    IN IF responses = <<>>
       THEN Outcome("success", <<>>, NoError, NoError)
       ELSE LET last == responses[Len(responses)]
            IN CASE last.kind = "reject" ->
                      LET e == McpError("InternalError",
                                 OutlineApiErrorPrefix
                                 \o (IF last.responseMessage = Null
                                     THEN NetworkMessage
                                     ELSE last.responseMessage)
                                 \o UrlPrefix \o env.instanceUrl \o <<")">>)
                      IN Outcome("error", <<>>, e, e)
                 [] last.kind = "nobody" ->
                      Outcome("error", <<>>, typeError, TypeError)
                 [] last.kind = "nodata" ->
                      Outcome("success", <<>>, NoError, NoError)
                 [] last.kind = "array" ->
                      IF \E n \in 1..Len(last.hits) : ~last.hits[n].hasDocument
                      THEN Outcome("error", <<>>, typeError, TypeError)
                      ELSE Outcome("success",
                                   [n \in 1..Len(last.hits) |->
                                      BuildItem(last.hits[n], fullDocs[n], m,
                                                env.instanceUrl)],
                                   NoError, NoError)

====
